---------------------------- MODULE Spec2Model ----------------------------
(***************************************************************************)
(* Model of src/prueba.py, a Streamlit dashboard script.                   *)
(*                                                                         *)
(* Streamlit runs the script top to bottom once when the page opens and    *)
(* once more, from the first line, every time a widget changes.  A state   *)
(* of the model is what one complete run leaves behind: the widget values  *)
(* it read, the dataset handle, the filtered view and every aggregate the  *)
(* run computed.  One action is "the user changes a widget and the script  *)
(* reruns to its end (or to st.stop())".                                   *)
(*                                                                         *)
(* Numbers.  The script computes with numpy int64 and float64.  Every      *)
(* number the run shows is modelled as a value record: an exact fraction   *)
(* n/d in lowest terms, or NaN, or +/-Inf, which numpy's true division     *)
(* yields (with a RuntimeWarning, not an exception) for 0/0 and x/0.       *)
(* The model's percentages are whole numbers, for which float64 sums are   *)
(* exact and a correctly rounded quotient orders as the fraction does.     *)
(*                                                                         *)
(* Strings with non-ASCII letters are written without the accents.         *)
(***************************************************************************)
EXTENDS Integers, Sequences, FiniteSets, TLC

VARIABLES df, year_range, term_option, dept_option, df_filtered, warning,
          kpi, df_yearly, df_term, dept_data, summary, csv

vars == <<df, year_range, term_option, dept_option, df_filtered, warning,
          kpi, df_yearly, df_term, dept_data, summary, csv>>

---------------------------------------------------------------------------
(* Bounds of the model and the sample values of the columns.               *)

MaxRows == 2

Years == {2020, 2021}

Terms == {"Spring", "Fall"}

Counts == {0, 1}

Pcts == {80, 90}

---------------------------------------------------------------------------
(* Values: exact fractions, NaN and the infinities.                        *)

RECURSIVE GCD(_, _)
GCD(a, b) == IF b = 0 THEN a ELSE GCD(b, a % b)

Abs(x) == IF x < 0 THEN -x ELSE x

NaN == [k |-> "nan", n |-> 0, d |-> 1]

Inf(sign) == [k |-> "inf", n |-> sign, d |-> 1]

Unset == [k |-> "unset", n |-> 0, d |-> 1]

\* The fraction n/d, d > 0, in lowest terms.
Ratio(n, d) ==
    LET g == GCD(Abs(n), d)
    IN  [k |-> "num", n |-> n \div g, d |-> d \div g]

Zero == Ratio(0, 1)

IsNum(x) == x.k = "num"

\* numpy true division of two int64 sums: a / b.
TrueDiv(a, b) ==
    IF b = 0
    THEN IF a = 0 THEN NaN ELSE Inf(IF a > 0 THEN 1 ELSE -1)
    ELSE Ratio(a, b)

\* x * 100 on a float.
Times100(x) == IF IsNum(x) THEN Ratio(x.n * 100, x.d) ELSE x

\* x - y on floats (the operands are never both infinite here).
Minus(x, y) ==
    IF IsNum(x) /\ IsNum(y) THEN Ratio(x.n * y.d - y.n * x.d, x.d * y.d)
    ELSE IF x.k = "nan" \/ y.k = "nan" THEN NaN
    ELSE IF x.k = "inf" THEN x
    ELSE Inf(-y.n)

\* x <= y on floats: every comparison with NaN is False.
Leq(x, y) ==
    IF IsNum(x) /\ IsNum(y) THEN x.n * y.d <= y.n * x.d
    ELSE IF x.k = "nan" \/ y.k = "nan" THEN FALSE
    ELSE IF x.k = "inf" THEN x.n < 0 \/ (y.k = "inf" /\ y.n > 0)
    ELSE y.n > 0

---------------------------------------------------------------------------
(* The dataset: one record per CSV row, keyed by the CSV's column names.   *)

RET == "Retention Rate (%)"
SAT == "Student Satisfaction (%)"
ENG == "Engineering Enrolled"
BUS == "Business Enrolled"
ART == "Arts Enrolled"
SCI == "Science Enrolled"

DeptColumns == <<ENG, BUS, ART, SCI>>

MkRow(y, t, ap, ad, en, re, sa, eg, bu, ar, sc) ==
    [Year |-> y, Term |-> t, Applications |-> ap, Admitted |-> ad,
     Enrolled |-> en]
      @@ (RET :> re) @@ (SAT :> sa)
      @@ (ENG :> eg) @@ (BUS :> bu) @@ (ART :> ar) @@ (SCI :> sc)

\* Rows put together from a (Year, Term), an (Applications, Admitted,
\* Enrolled), a (retention, satisfaction) and a tuple of the four department
\* counts.
RowSet(YTs, Funnels, Quals, Depts) ==
    { MkRow(yt[1], yt[2], f[1], f[2], f[3], q[1], q[2],
            dp[1], dp[2], dp[3], dp[4]) :
        yt \in YTs, f \in Funnels, q \in Quals, dp \in Depts }

\* Every non-empty dataset of at most MaxRows rows drawn from Rows.
Datasets(Rows) == UNION { [1..n -> Rows] : n \in 1..MaxRows }

---------------------------------------------------------------------------
(* pandas: columns, sums, means, group keys.                               *)

\* df[col] as a sequence of cell values.
Column(v, col) == [i \in 1..Len(v) |-> v[i][col]]

RECURSIVE SumTo(_, _)
SumTo(s, n) == IF n = 0 THEN 0 ELSE SumTo(s, n - 1) + s[n]

\* The sum of a sequence of integers.
SumSeq(s) == SumTo(s, Len(s))

RECURSIVE SumColTo(_, _, _)
SumColTo(v, col, n) == IF n = 0 THEN 0 ELSE SumColTo(v, col, n - 1) + v[n][col]

\* df[col].sum()
Sum(v, col) == SumColTo(v, col, Len(v))

\* df[col].mean(): NaN for an empty column.
Mean(v, col) == IF Len(v) = 0 THEN NaN ELSE Ratio(Sum(v, col), Len(v))

\* Python's order on str compares code points, left to right.
CodePoints(t) ==
    CASE t = "Fall"   -> <<70, 97, 108, 108>>
      [] t = "Spring" -> <<83, 112, 114, 105, 110, 103>>

RECURSIVE LexLess(_, _)
LexLess(a, b) ==
    IF Len(b) = 0 THEN FALSE
    ELSE IF Len(a) = 0 THEN TRUE
    ELSE IF Head(a) # Head(b) THEN Head(a) < Head(b)
    ELSE LexLess(Tail(a), Tail(b))

StrLess(s, t) == LexLess(CodePoints(s), CodePoints(t))

\* The distinct values of a column in the order they first appear.
RECURSIVE FirstSeen(_)
FirstSeen(s) ==
    IF Len(s) = 0 THEN <<>>
    ELSE LET rest == FirstSeen(SubSeq(s, 1, Len(s) - 1))
             last == s[Len(s)]
         IN  IF \E i \in 1..Len(rest) : rest[i] = last
             THEN rest ELSE Append(rest, last)

\* sorted(S) for a set of years.
RECURSIVE SortedYears(_)
SortedYears(S) ==
    IF S = {} THEN <<>>
    ELSE LET m == CHOOSE x \in S : \A y \in S : x <= y
         IN  <<m>> \o SortedYears(S \ {m})

RECURSIVE SortedTerms(_)
SortedTerms(S) ==
    IF S = {} THEN <<>>
    ELSE LET m == CHOOSE x \in S : \A y \in S \ {x} : StrLess(x, y)
         IN  <<m>> \o SortedTerms(S \ {m})

Range(s) == { s[i] : i \in 1..Len(s) }

\* df[col].unique() as a set.
Unique(v, col) == { v[i][col] : i \in 1..Len(v) }

\* groupby('Year') with its default sort=True: the group keys, ascending.
YearKeys(v) == SortedYears(Unique(v, "Year"))

\* groupby('Term', sort=False): the group keys in first-seen order.
TermKeysFirstSeen(v) == FirstSeen(Column(v, "Term"))

\* groupby('Term') with its default sort=True: the group keys, ascending.
TermKeys(v) == SortedTerms(Unique(v, "Term"))

\* The rows of one group, in the view's order.
Group(v, col, key) == SelectSeq(v, LAMBDA r : r[col] = key)

\* The .agg({...}) of lines 140-146 and 243-249 on one group.
Agg(g) ==
    (RET :> Mean(g, RET)) @@ (SAT :> Mean(g, SAT))
      @@ [Enrolled |-> Sum(g, "Enrolled"),
          Applications |-> Sum(g, "Applications"),
          Admitted |-> Sum(g, "Admitted")]

GroupByYear(v) ==
    LET keys == YearKeys(v)
    IN  [j \in 1..Len(keys) |->
            [Year |-> keys[j]] @@ Agg(Group(v, "Year", keys[j]))]

GroupByTerm(v) ==
    LET keys == TermKeys(v)
    IN  [j \in 1..Len(keys) |->
            [Term |-> keys[j]] @@ Agg(Group(v, "Term", keys[j]))]

\* Strictly increasing: equal neighbours rejected.
IsStrictlyIncreasing(s) ==
    \A i \in 1..(Len(s) - 1) : Leq(s[i], s[i + 1]) /\ s[i] # s[i + 1]

\* Series.is_monotonic_increasing: no element smaller than the one before.
IsMonotonicIncreasing(s) == \A i \in 1..(Len(s) - 1) : Leq(s[i], s[i + 1])

---------------------------------------------------------------------------
(* The script, top to bottom.                                              *)

\* years = sorted(df['Year'].unique()), the options of the year slider.
years(d) == SortedYears(Unique(d, "Year"))

\* What st.select_slider can return: a pair (lo, hi) of options, lo <= hi.
YearRanges(d) ==
    { p \in Range(years(d)) \X Range(years(d)) : p[1] <= p[2] }

DefaultYearRange(d) == <<years(d)[1], years(d)[Len(years(d))]>>

TermOptions == <<"Todos", "Spring (Primavera)", "Fall (Otono)">>

DeptOptions ==
    <<"Todos los Departamentos", "Ingenieria", "Negocios", "Artes", "Ciencias">>

\* Lines 55-60.  dept_option is read from the widget and never used.
ApplyFilters(d, yr, t) ==
    LET byYear == SelectSeq(d, LAMBDA r : r.Year >= yr[1] /\ r.Year <= yr[2])
    IN  IF t = "Spring (Primavera)"
        THEN SelectSeq(byYear, LAMBDA r : r.Term = "Spring")
        ELSE IF t = "Fall (Otono)"
        THEN SelectSeq(byYear, LAMBDA r : r.Term = "Fall")
        ELSE byYear

\* The guard of line 68 left out.
IsEmptyIgnored(v) == FALSE

\* df_filtered.empty
IsEmpty(v) == Len(v) = 0

\* The difference of line 79 taken the other way round.
RetentionChangeReversed(d, v) == Minus(Mean(d, RET), Mean(v, RET))

\* Line 79: avg_retention - df['Retention Rate (%)'].mean()
RetentionChange(d, v) == Minus(Mean(v, RET), Mean(d, RET))

\* Line 89.
SatisfactionChange(d, v) == Minus(Mean(v, SAT), Mean(d, SAT))

\* Line 99: total_enrolled - df['Enrolled'].sum()
EnrolledChange(d, v) == Sum(v, "Enrolled") - Sum(d, "Enrolled")

\* Line 108 with numerator and denominator exchanged.
AvgAdmissionRateInverted(v) ==
    Times100(TrueDiv(Sum(v, "Applications"), Sum(v, "Admitted")))

\* Line 108: no guard on the denominator.
AvgAdmissionRate(v) ==
    Times100(TrueDiv(Sum(v, "Admitted"), Sum(v, "Applications")))

\* Lines 77-112, the KPI header.
KPIs(d, v) ==
    [avg_retention       |-> Mean(v, RET),
     retention_change    |-> RetentionChange(d, v),
     avg_satisfaction    |-> Mean(v, SAT),
     satisfaction_change |-> SatisfactionChange(d, v),
     total_enrolled      |-> Ratio(Sum(v, "Enrolled"), 1),
     enrolled_change     |-> Ratio(EnrolledChange(d, v), 1),
     avg_admission_rate  |-> AvgAdmissionRate(v)]

UnsetKPIs ==
    [avg_retention |-> Unset, retention_change |-> Unset,
     avg_satisfaction |-> Unset, satisfaction_change |-> Unset,
     total_enrolled |-> Unset, enrolled_change |-> Unset,
     avg_admission_rate |-> Unset]

DeptNames == <<"Ingenieria", "Negocios", "Artes", "Ciencias">>

\* Lines 308-313 with the first column summed for two departments.
DeptTotalsColumnRepeated(v) ==
    <<Sum(v, ENG), Sum(v, ENG), Sum(v, ART), Sum(v, SCI)>>

\* Lines 308-313: the four column sums over the filtered view.
DeptTotals(v) == [i \in 1..Len(DeptColumns) |-> Sum(v, DeptColumns[i])]

\* round(1): to the nearest tenth, halves to the even tenth.
Round1(x) ==
    IF ~IsNum(x) THEN x
    ELSE LET t == x.n * 10
             q == t \div x.d
             r == t % x.d
         IN  IF 2 * r < x.d THEN Ratio(q, 10)
             ELSE IF 2 * r > x.d THEN Ratio(q + 1, 10)
             ELSE IF q % 2 = 0 THEN Ratio(q, 10)
             ELSE Ratio(q + 1, 10)

\* Lines 306-317.
DeptData(v) ==
    LET totals == DeptTotals(v)
    IN  [i \in 1..Len(DeptNames) |->
            [Departamento |-> DeptNames[i],
             Total        |-> totals[i],
             Porcentaje   |->
                 Round1(Times100(TrueDiv(totals[i], SumSeq(totals))))]]

\* Line 409: guarded.
AdmissionRate(v) ==
    IF Sum(v, "Applications") > 0
    THEN Times100(TrueDiv(Sum(v, "Admitted"), Sum(v, "Applications")))
    ELSE Zero

\* Line 416: guarded.
YieldRate(v) ==
    IF Sum(v, "Admitted") > 0
    THEN Times100(TrueDiv(Sum(v, "Enrolled"), Sum(v, "Admitted")))
    ELSE Zero

\* Line 446: total_enrolled/total_apps*100, no guard.
ConversionRate(v) ==
    Times100(TrueDiv(Sum(v, "Enrolled"), Sum(v, "Applications")))

\* Line 462: groupby('Year')['Enrolled'].sum()
EnrolledByYear(v) ==
    LET keys == YearKeys(v)
    IN  [j \in 1..Len(keys) |-> Ratio(Sum(Group(v, "Year", keys[j]), "Enrolled"), 1)]

\* Lines 463-464: groupby('Year')[col].mean()
MeanByYear(v, col) ==
    LET keys == YearKeys(v)
    IN  [j \in 1..Len(keys) |-> Mean(Group(v, "Year", keys[j]), col)]

\* Lines 402-464, the overview tab.
Summary(v) ==
    [total_apps        |-> Sum(v, "Applications"),
     total_admitted    |-> Sum(v, "Admitted"),
     admission_rate    |-> AdmissionRate(v),
     yield_rate        |-> YieldRate(v),
     conversion_rate   |-> ConversionRate(v),
     trend_enrolled    |->
         IF IsMonotonicIncreasing(EnrolledByYear(v))
         THEN "Crecimiento" ELSE "Variacion",
     trend_retention   |->
         IF IsMonotonicIncreasing(MeanByYear(v, RET))
         THEN "Mejora continua" ELSE "Fluctuacion",
     trend_satisfaction |->
         IF IsMonotonicIncreasing(MeanByYear(v, SAT))
         THEN "Aumento sostenido" ELSE "Cambios"]

UnsetSummary ==
    [total_apps |-> 0, total_admitted |-> 0, admission_rate |-> Unset,
     yield_rate |-> Unset, conversion_rate |-> Unset, trend_enrolled |-> "",
     trend_retention |-> "", trend_satisfaction |-> ""]

CsvColumns ==
    <<"Year", "Term", "Applications", "Admitted", "Enrolled", RET, SAT,
      ENG, BUS, ART, SCI>>

\* Line 478: df_filtered.to_csv(index=False), a header line and one line
\* of cells per row.
ToCsv(v) ==
    <<CsvColumns>> \o
    [i \in 1..Len(v) |-> [c \in 1..Len(CsvColumns) |-> v[i][CsvColumns[c]]]]

\* One run of the script on dataset d with the widgets at (yr, t, dep):
\* everything the run leaves behind.  Lines 68-70 stop the run before any
\* aggregate when the view is empty.
Render(d, yr, t, dep) ==
    LET v    == ApplyFilters(d, yr, t)
        stop == IsEmpty(v)
    IN  [df_filtered |-> v,
         warning     |-> stop,
         kpi         |-> IF stop THEN UnsetKPIs ELSE KPIs(d, v),
         df_yearly   |-> IF stop THEN <<>> ELSE GroupByYear(v),
         df_term     |-> IF stop THEN <<>> ELSE GroupByTerm(v),
         dept_data   |-> IF stop THEN <<>> ELSE DeptData(v),
         summary     |-> IF stop THEN UnsetSummary ELSE Summary(v),
         csv         |-> IF stop THEN <<>> ELSE ToCsv(v)]

\* What a run with widget values (yr, t, dep) leaves behind: its results r
\* and the dataset handle d.
Leaves(r, d, yr, t, dep) ==
    /\ year_range' = yr
    /\ term_option' = t
    /\ dept_option' = dep
    /\ df' = d
    /\ df_filtered' = r.df_filtered
    /\ warning' = r.warning
    /\ kpi' = r.kpi
    /\ df_yearly' = r.df_yearly
    /\ df_term' = r.df_term
    /\ dept_data' = r.dept_data
    /\ summary' = r.summary
    /\ csv' = r.csv

\* A rerun that filters the previous run's view instead of the dataset.
RerunOnPreviousView(yr, t, dep) ==
    \E r \in {Render(df_filtered, yr, t, dep)} : Leaves(r, df, yr, t, dep)

\* A rerun that keeps the filtered rows as the dataset (df = df[...]).
RerunRebindingDf(yr, t, dep) ==
    \E r \in {Render(df, yr, t, dep)} : Leaves(r, r.df_filtered, yr, t, dep)

\* A widget change: Streamlit reruns the script with the new widget values.
\* load_data() is served from st.cache_data and the script never assigns to
\* df or writes into it.
Rerun(yr, t, dep) ==
    \E r \in {Render(df, yr, t, dep)} : Leaves(r, df, yr, t, dep)

\* The first run: the CSV is read and the widgets have their defaults.
FirstRun(d) ==
    \E r \in {Render(d, DefaultYearRange(d), TermOptions[1], DeptOptions[1])} :
        /\ df = d
        /\ year_range = DefaultYearRange(d)
        /\ term_option = TermOptions[1]
        /\ dept_option = DeptOptions[1]
        /\ df_filtered = r.df_filtered
        /\ warning = r.warning
        /\ kpi = r.kpi
        /\ df_yearly = r.df_yearly
        /\ df_term = r.df_term
        /\ dept_data = r.dept_data
        /\ summary = r.summary
        /\ csv = r.csv

ChangeYearRange ==
    \E yr \in YearRanges(df) \ {year_range} :
        Rerun(yr, term_option, dept_option)

ChangeTerm ==
    \E t \in Range(TermOptions) \ {term_option} :
        Rerun(year_range, t, dept_option)

ChangeDept ==
    \E dep \in Range(DeptOptions) \ {dept_option} :
        Rerun(year_range, term_option, dep)

Next == ChangeYearRange \/ ChangeTerm \/ ChangeDept

---------------------------------------------------------------------------
(* Specifications: the same script over datasets that vary different       *)
(* columns.                                                                *)

\* Every term of every year, or one term per year.
AllTerms == Years \X Terms

OneTerm == {<<2020, "Spring">>, <<2021, "Fall">>}

NoDepts == {<<0, 0, 0, 0>>}

\* Year, Term and Enrolled vary.
RowsBase ==
    RowSet(AllTerms, {<<2, 1, e>> : e \in Counts}, {<<80, 80>>}, NoDepts)

\* The admission funnel varies; Admitted may exceed Applications.
RowsFunnel ==
    RowSet(OneTerm, {f \in Counts \X Counts \X Counts : f[3] <= f[2]},
           {<<80, 80>>}, NoDepts)

\* Enrolled, retention and satisfaction vary.
RowsQuality ==
    RowSet(OneTerm, {<<2, 1, e>> : e \in Counts},
           {q \in Pcts \X Pcts : q[1] = 80 \/ q[2] = 80}, NoDepts)

\* The department counts vary: none, one student in one department, or
\* two students in two departments although Enrolled is 1.
RowsDept ==
    RowSet(OneTerm, {<<2, 1, 1>>}, {<<80, 80>>},
           {dp \in Counts \X Counts \X Counts \X Counts :
               dp[1] + dp[2] + dp[3] + dp[4] <= 1} \cup {<<1, 0, 1, 0>>})

Init == \E d \in Datasets(RowsBase) : FirstRun(d)

InitFunnel == \E d \in Datasets(RowsFunnel) : FirstRun(d)

InitQuality == \E d \in Datasets(RowsQuality) : FirstRun(d)

InitDept == \E d \in Datasets(RowsDept) : FirstRun(d)

Spec == Init /\ [][Next]_vars

SpecFunnel == InitFunnel /\ [][Next]_vars

SpecQuality == InitQuality /\ [][Next]_vars

SpecDept == InitDept /\ [][Next]_vars

---------------------------------------------------------------------------
(* What the filter is to select, stated on the rows of the full dataset.   *)

YearPredicate(r) == year_range[1] <= r.Year /\ r.Year <= year_range[2]

TermPredicate(r) ==
    \/ term_option = "Todos"
    \/ term_option = "Spring (Primavera)" /\ r.Term = "Spring"
    \/ term_option = "Fall (Otono)" /\ r.Term = "Fall"

DeptColumnOf(dep) ==
    CASE dep = "Ingenieria" -> ENG
      [] dep = "Negocios"   -> BUS
      [] dep = "Artes"      -> ART
      [] dep = "Ciencias"   -> SCI

\* A row has no department of its own, only the four department counts: a
\* row belongs to the selected department when it counts students there.
DeptPredicate(r) ==
    \/ dept_option = "Todos los Departamentos"
    \/ r[DeptColumnOf(dept_option)] > 0

\* v is the subsequence of d made of the rows that satisfy P, in d's order.
ExactSubsequence(v, d, P(_)) ==
    LET idx == { i \in 1..Len(d) : P(d[i]) }
    IN  /\ Len(v) = Cardinality(idx)
        /\ \A i \in idx : v[Cardinality({ k \in idx : k <= i })] = d[i]

\* The rows of the full dataset the current year range and term select.
Selected == { i \in 1..Len(df) : YearPredicate(df[i]) /\ TermPredicate(df[i]) }

---------------------------------------------------------------------------
(* C1 *)

\* C1: the filtered view is exactly the subsequence of the full dataset, in
\* the original order, of the rows that satisfy the year bound, the term
\* selected and, when a department is selected, the department predicate.
C1_FilteredViewSatisfiesAllPredicates ==
    ExactSubsequence(df_filtered, df,
        LAMBDA r : YearPredicate(r) /\ TermPredicate(r) /\ DeptPredicate(r))

---------------------------------------------------------------------------
(* C2 *)

\* C2: for a non-empty view every ratio with a zero denominator is reported
\* as exactly 0: the admission rate of the KPI header and of the overview
\* tab, the yield rate and the applications-to-enrollment conversion rate.
C2_ZeroDenominatorReportsZero ==
    ~warning =>
        /\ Sum(df_filtered, "Applications") = 0 =>
               /\ kpi.avg_admission_rate = Zero
               /\ summary.admission_rate = Zero
               /\ summary.conversion_rate = Zero
        /\ Sum(df_filtered, "Admitted") = 0 => summary.yield_rate = Zero

---------------------------------------------------------------------------
(* C3 *)

NothingComputed ==
    /\ kpi = UnsetKPIs
    /\ df_yearly = <<>>
    /\ df_term = <<>>
    /\ dept_data = <<>>
    /\ summary = UnsetSummary
    /\ csv = <<>>

\* C3: the warning is shown exactly when no row of the dataset passes the
\* filters; when it is shown no KPI, grouped aggregate or ratio has been
\* computed, and when it is not shown they all have been.
C3_EmptyViewStopsBeforeAggregation ==
    /\ warning <=> Selected = {}
    /\ warning => NothingComputed
    /\ ~warning =>
           /\ kpi.avg_retention # Unset
           /\ kpi.avg_admission_rate # Unset
           /\ df_yearly # <<>>
           /\ df_term # <<>>
           /\ dept_data # <<>>
           /\ summary.admission_rate # Unset

\* An empty view was reached and the run stopped at the warning.
C3_Witness == warning /\ Selected = {} /\ NothingComputed /\ Len(df) = MaxRows

---------------------------------------------------------------------------
(* C4 *)

\* Every row has 0 <= Enrolled <= Admitted <= Applications.
WellFormedFunnel(d) ==
    \A i \in 1..Len(d) :
        /\ 0 <= d[i].Enrolled
        /\ d[i].Enrolled <= d[i].Admitted
        /\ d[i].Admitted <= d[i].Applications

\* x is a number between 0 and 100.
InPercentRange(x) == IsNum(x) /\ 0 <= x.n /\ x.n <= 100 * x.d

\* C4: over a dataset whose rows have 0 <= Enrolled <= Admitted <=
\* Applications, the admission rate of every non-empty view lies in [0, 100]
\* when the applications sum is positive, and the yield rate lies in
\* [0, 100] when the admitted sum is positive.
C4_RatesWithinPercentRange ==
    (WellFormedFunnel(df) /\ ~warning) =>
        /\ Sum(df_filtered, "Applications") > 0 =>
               /\ InPercentRange(kpi.avg_admission_rate)
               /\ InPercentRange(summary.admission_rate)
        /\ Sum(df_filtered, "Admitted") > 0 =>
               InPercentRange(summary.yield_rate)

\* A well-formed dataset and a view in which half the applicants were
\* admitted and all the admitted enrolled.
C4_Witness ==
    /\ WellFormedFunnel(df) /\ ~warning
    /\ Sum(df_filtered, "Admitted") > 0
    /\ kpi.avg_admission_rate = Ratio(50, 1)
    /\ summary.admission_rate = Ratio(50, 1)
    /\ summary.yield_rate = Ratio(100, 1)

---------------------------------------------------------------------------
(* C5 *)

\* C5: after any sequence of filter changes, the view and every aggregate
\* shown are the ones computed from the current filter applied to the full
\* dataset, so that two renders with the same filter show the same
\* grouped-by-Year aggregates whatever was rendered in between.
C5_AggregatesDependOnCurrentFilterOnly ==
    \E r \in {Render(df, year_range, term_option, dept_option)} :
        /\ df_filtered = r.df_filtered
        /\ warning = r.warning
        /\ kpi = r.kpi
        /\ df_yearly = r.df_yearly
        /\ df_term = r.df_term
        /\ dept_data = r.dept_data
        /\ summary = r.summary

\* A render after the filters were moved away from their defaults, showing
\* the yearly aggregates of a view that leaves a row out.
C5_Witness ==
    /\ ~warning
    /\ year_range # DefaultYearRange(df)
    /\ term_option # TermOptions[1]
    /\ Len(df_filtered) < Len(df)
    /\ df_yearly = GroupByYear(ApplyFilters(df, year_range, term_option))

---------------------------------------------------------------------------
(* C6 *)

\* C6: no render changes the loaded dataset: after every step the full
\* dataset has the rows, the order and the values it had before the step.
C6_DatasetUnchangedByRender == [][df' = df]_vars

\* A complete render (export included) of a view that leaves a row out, with
\* the dataset still holding all its rows.
C6_Witness ==
    /\ ~warning
    /\ Len(df) = MaxRows
    /\ Len(df_filtered) < Len(df)
    /\ Len(csv) = Len(df_filtered) + 1

---------------------------------------------------------------------------
(* C7 *)

\* Every row's department counts are non-negative and sum to at most its
\* Enrolled.
DeptsWithinEnrolled(d) ==
    \A i \in 1..Len(d) :
        /\ \A c \in Range(DeptColumns) : d[i][c] >= 0
        /\ d[i][ENG] + d[i][BUS] + d[i][ART] + d[i][SCI] <= d[i].Enrolled

\* The sum of the four totals of the department breakdown.
DeptDataTotal == SumSeq([i \in 1..Len(dept_data) |-> dept_data[i].Total])

\* C7: over a dataset whose rows keep their department counts within
\* Enrolled, the four totals of the department breakdown of a non-empty view
\* sum to at most the view's total enrolled.
C7_DeptTotalsWithinEnrolled ==
    (DeptsWithinEnrolled(df) /\ ~warning) =>
        /\ IsNum(kpi.total_enrolled)
        /\ DeptDataTotal * kpi.total_enrolled.d <= kpi.total_enrolled.n

\* A view of two rows with students counted in two different departments.
C7_Witness ==
    /\ DeptsWithinEnrolled(df) /\ ~warning
    /\ DeptDataTotal = MaxRows
    /\ \E i, j \in 1..Len(dept_data) :
           i # j /\ dept_data[i].Total > 0 /\ dept_data[j].Total > 0

---------------------------------------------------------------------------
(* C8 *)

\* The sum of a column, written out over the row indices.
ColumnTotal(v, col) == SumSeq([i \in 1..Len(v) |-> v[i][col]])

\* x is the difference of the means of column col over v and over d.
IsMeanDifference(x, v, d, col) ==
    /\ IsNum(x)
    /\ x.n * (Len(v) * Len(d)) =
           (ColumnTotal(v, col) * Len(d) - ColumnTotal(d, col) * Len(v)) * x.d

\* C8: for a non-empty view V of dataset D every change indicator of the
\* KPI header is the KPI on V minus the same KPI on D (mean retention, mean
\* satisfaction, total enrolled), and it is 0 when V has every row of D.
C8_ChangeIsViewMinusDataset ==
    ~warning =>
        /\ IsMeanDifference(kpi.retention_change, df_filtered, df, RET)
        /\ IsMeanDifference(kpi.satisfaction_change, df_filtered, df, SAT)
        /\ kpi.enrolled_change =
               Ratio(ColumnTotal(df_filtered, "Enrolled")
                       - ColumnTotal(df, "Enrolled"), 1)
        /\ Len(df_filtered) = Len(df) =>
               /\ kpi.retention_change = Zero
               /\ kpi.satisfaction_change = Zero
               /\ kpi.enrolled_change = Zero

\* A view whose retention is above, satisfaction below and enrollment below
\* the dataset's.
C8_Witness ==
    /\ ~warning
    /\ kpi.retention_change.n > 0
    /\ kpi.satisfaction_change.n < 0
    /\ kpi.enrolled_change.n < 0

---------------------------------------------------------------------------
(* C9 *)

\* The years present in the filtered view.
ViewYears == { df_filtered[i].Year : i \in 1..Len(df_filtered) }

\* The sum of a column over the view's rows of year y, and their number.
YearTotal(col, y) ==
    SumSeq([i \in 1..Len(df_filtered) |->
               IF df_filtered[i].Year = y THEN df_filtered[i][col] ELSE 0])

YearCount(y) ==
    Cardinality({ i \in 1..Len(df_filtered) : df_filtered[i].Year = y })

\* y2 is the year that follows y1 among the view's years.
NextYear(y1, y2) ==
    y1 < y2 /\ ~\E y \in ViewYears : y1 < y /\ y < y2

\* The per-year sums of a column never go down from a year to the next.
SumsNonDecreasing(col) ==
    \A y1, y2 \in ViewYears :
        NextYear(y1, y2) => YearTotal(col, y1) <= YearTotal(col, y2)

\* The per-year means of a column never go down from a year to the next.
MeansNonDecreasing(col) ==
    \A y1, y2 \in ViewYears :
        NextYear(y1, y2) =>
            YearTotal(col, y1) * YearCount(y2)
                <= YearTotal(col, y2) * YearCount(y1)

\* C9: for a non-empty view each trend label is the growing variant exactly
\* when its grouped-by-Year series (sum Enrolled, mean retention, mean
\* satisfaction), in ascending Year order, never decreases (equal
\* neighbours and a single year count as growing), and the fluctuating
\* variant otherwise.
C9_TrendLabelIffNonDecreasing ==
    ~warning =>
        /\ summary.trend_enrolled =
               IF SumsNonDecreasing("Enrolled")
               THEN "Crecimiento" ELSE "Variacion"
        /\ summary.trend_retention =
               IF MeansNonDecreasing(RET)
               THEN "Mejora continua" ELSE "Fluctuacion"
        /\ summary.trend_satisfaction =
               IF MeansNonDecreasing(SAT)
               THEN "Aumento sostenido" ELSE "Cambios"

\* Two years in view: enrollment equal in both (growing), retention down
\* (fluctuating), satisfaction up (growing).
C9_Witness ==
    /\ ~warning
    /\ Cardinality(ViewYears) = 2
    /\ \A y1, y2 \in ViewYears : YearTotal("Enrolled", y1) = YearTotal("Enrolled", y2)
    /\ summary.trend_enrolled = "Crecimiento"
    /\ summary.trend_retention = "Fluctuacion"
    /\ summary.trend_satisfaction = "Aumento sostenido"

---------------------------------------------------------------------------
(* C10 *)

\* keys lists every value of the set S exactly once.
ListsOnce(keys, S) == Range(keys) = S /\ Len(keys) = Cardinality(S)

ViewTerms == { df_filtered[i].Term : i \in 1..Len(df_filtered) }

\* The group keys of the two grouped aggregates.
YearlyKeys == [j \in 1..Len(df_yearly) |-> df_yearly[j].Year]

TermlyKeys == [j \in 1..Len(df_term) |-> df_term[j].Term]

\* Each year of the view is a key of df_yearly once, each term a key of
\* df_term once, and the years ascend.
KeysOnceYearsAscending ==
    /\ ListsOnce(YearlyKeys, ViewYears)
    /\ ListsOnce(TermlyKeys, ViewTerms)
    /\ \A i, j \in 1..Len(YearlyKeys) : i < j => YearlyKeys[i] < YearlyKeys[j]

\* C10 as stated: each Year and each Term of a non-empty view is a group
\* key exactly once, the Year keys ascend, and the Term keys are in the
\* order in which each Term is first seen in the view.
C10_TermKeysFirstSeen ==
    ~warning =>
        /\ KeysOnceYearsAscending
        /\ TermlyKeys = FirstSeen(Column(df_filtered, "Term"))

\* C10 amended: each Year and each Term of a non-empty view is a group key
\* exactly once, the Year keys ascend, and the Term keys are in ascending
\* alphabetical order, Fall before Spring, wherever they first appear.
C10_TermKeysAlphabetical ==
    ~warning =>
        /\ KeysOnceYearsAscending
        /\ \A i, j \in 1..Len(TermlyKeys) :
               i < j => TermlyKeys[i] = "Fall" /\ TermlyKeys[j] = "Spring"

\* A view of two years that meets Spring before Fall and is grouped under
\* Fall first.
C10_Witness ==
    /\ ~warning
    /\ Len(df_filtered) = MaxRows
    /\ df_filtered[1].Term = "Spring"
    /\ df_filtered[Len(df_filtered)].Term = "Fall"
    /\ df_filtered[1].Year > df_filtered[Len(df_filtered)].Year
    /\ TermlyKeys = <<"Fall", "Spring">>
    /\ Len(YearlyKeys) > 1

---------------------------------------------------------------------------
(* C11 *)

\* The filtered view's sum of the i-th department column, written out over
\* the row indices.
ViewDeptTotal(i) ==
    SumSeq([j \in 1..Len(df_filtered) |-> df_filtered[j][DeptColumns[i]]])

\* C11: the department breakdown of a non-empty view lists the four
\* departments (Engineering, Business, Arts, Science, under their Spanish
\* labels), and every department whose enrollment total over the view is 0
\* is listed with total 0 and percentage share 0.
C11_ZeroDepartmentShownAsZero ==
    ~warning =>
        /\ [i \in 1..Len(dept_data) |-> dept_data[i].Departamento]
               = <<"Ingenieria", "Negocios", "Artes", "Ciencias">>
        /\ \A i \in 1..Len(dept_data) :
               ViewDeptTotal(i) = 0 =>
                   /\ dept_data[i].Total = 0
                   /\ dept_data[i].Porcentaje = Zero

=============================================================================
